---- MODULE Spec2Model ----
(***************************************************************************)
(* Model of app/ui/dialogs.py (DemonEditor): the resource-string cache     *)
(* (functools.lru_cache around get_dialogs_string), the WaitDialog handle  *)
(* whose mutators are marshalled with run_idle, and the modal dialogs      *)
(* dispatched by show_dialog.                                              *)
(***************************************************************************)
EXTENDS Integers, Sequences, FiniteSets, TLC

VARIABLES isWin,      \* IS_WIN, fixed by the platform
          fileVer,    \* generation of the resource files on disk
          cache,      \* lru_cache of get_dialogs_string, LRU first, MRU last
          recency,    \* history: every requested key, least recently requested first
          lastCall,   \* history: the last get_dialogs_string call and what it did
          wd,         \* the WaitDialog instance (dialog + label + default text)
          idleQueue,  \* GLib main-loop idle queue (callbacks queued by run_idle)
          workerPc,   \* position of the background worker inside WaitDialog.show
          waitHist,   \* history: last calls issued on the WaitDialog
          call,       \* the show_dialog call in progress / its returned value
          dialog      \* the modal dialog instance built for the call

resVars  == <<isWin, fileVer, cache, recency, lastCall>>
waitVars == <<wd, idleQueue, workerPc, waitHist>>
dlgVars  == <<call, dialog>>
vars     == <<isWin, fileVer, cache, recency, lastCall, wd, idleQueue, workerPc, waitHist, call, dialog>>

None == "<None>"

\* ---------------------------------------------------------------- bounds
MaxVersion == 2        \* how many times the resource files are rewritten on disk
MaxQueue   == 3        \* idle callbacks that may be pending at once

\* ------------------------------------------------------- program constants
LruMaxSize == 5
DefaultTag == "property"
DialogsGlade == "ui/dialogs.glade"     \* UI_RESOURCES_PATH + "dialogs.glade"

Paths == {DialogsGlade, "ui/main.glade"}
Tags  == {"property", "attribute"}

\* ------------------------------------------------------------ translation
\* The text-domain catalog consulted by gettext.dgettext; the empty msgid is
\* the catalog's header entry.
Catalog ==
  [m \in {"", "Cancel", "Please wait...", "Loading", "Are you sure?"} |->
     CASE m = ""               -> "Project-Id-Version: demo"
       [] m = "Cancel"         -> "Abbrechen"
       [] m = "Please wait..." -> "Bitte warten..."
       [] m = "Loading"        -> "Laden"
       [] m = "Are you sure?"  -> "Sind Sie sicher?"]

get_message(message) ==
  IF message \in DOMAIN Catalog THEN Catalog[message] ELSE message

\* -------------------------------------------------------- resource files
\* A resource file is a sequence of markup nodes; generation 2 of a file has
\* an edited first node.
FileNodes(path, ver) ==
  LET first == IF ver = 1 THEN "Cancel" ELSE "Loading"
  IN IF path = DialogsGlade
     THEN << [tag |-> "property",  translatable |-> "yes", text |-> first],
             [tag |-> "property",  translatable |-> "no",  text |-> "Please wait..."],
             [tag |-> "attribute", translatable |-> "yes", text |-> "Are you sure?"] >>
     ELSE << [tag |-> "attribute", translatable |-> "yes", text |-> first],
             [tag |-> "property",  translatable |-> None,  text |-> "Cancel"] >>

translate_xml(path, tag, ver) ==
  LET root == FileNodes(path, ver)
  IN [i \in DOMAIN root |->
        IF root[i].tag = tag /\ root[i].translatable = "yes"
        THEN [root[i] EXCEPT !.text = get_message(@)]
        ELSE root[i]]

\* args is the positional argument tuple of the call: <<path>> or <<path, tag>>.
ArgTag(args) == IF Len(args) = 2 THEN args[2] ELSE DefaultTag

\* Body of get_dialogs_string (what runs on a cache miss).
get_dialogs_string_body(args, win, ver) ==
  IF win THEN translate_xml(args[1], ArgTag(args), ver)
  ELSE FileNodes(args[1], ver)

\* -------------------------------------------------------------- lru_cache
ArgTuples == {<<p>> : p \in Paths} \cup {<<p, t>> : p \in Paths, t \in Tags}

\* functools.lru_cache keys an entry by the arguments as they were passed.
make_key(args) == args

CacheKeys(c) == {c[i].key : i \in DOMAIN c}
CacheIndex(c, k) == CHOOSE i \in DOMAIN c : c[i].key = k
RemoveAt(s, i) == SubSeq(s, 1, i - 1) \o SubSeq(s, i + 1, Len(s))

lru_update_nostore(c, k, v, maxsize) == << >>

lru_update_fifo(c, k, v, maxsize) ==
  IF k \in CacheKeys(c) THEN c
  ELSE IF Len(c) >= maxsize
       THEN Tail(c) \o << [key |-> k, value |-> v] >>
       ELSE Append(c, [key |-> k, value |-> v])

\* The cache after a call with key k that produced / found value v.
lru_update(c, k, v, maxsize) ==
  IF k \in CacheKeys(c)
  THEN RemoveAt(c, CacheIndex(c, k)) \o << c[CacheIndex(c, k)] >>
  ELSE IF Len(c) >= maxsize
       THEN Tail(c) \o << [key |-> k, value |-> v] >>
       ELSE Append(c, [key |-> k, value |-> v])

\* Value returned by the decorated get_dialogs_string.
lru_result(c, args, win, ver) ==
  IF make_key(args) \in CacheKeys(c)
  THEN c[CacheIndex(c, make_key(args))].value
  ELSE get_dialogs_string_body(args, win, ver)

SeqIndex(s, x) == CHOOSE i \in DOMAIN s : s[i] = x
SeqSet(s) == {s[i] : i \in DOMAIN s}
Touch(s, x) == IF x \in SeqSet(s) THEN RemoveAt(s, SeqIndex(s, x)) \o <<x>> ELSE Append(s, x)

\* One call of the decorated get_dialogs_string(*args).
get_dialogs_string(args) ==
  /\ cache' = lru_update(cache, make_key(args), get_dialogs_string_body(args, isWin, fileVer), LruMaxSize)
  /\ recency' = Touch(recency, args)
  /\ lastCall' = [seq     |-> 1 - lastCall.seq,
                  args    |-> args,
                  content |-> lru_result(cache, args, isWin, fileVer),
                  read    |-> make_key(args) \notin CacheKeys(cache),
                  again   |-> args \in SeqSet(recency)]

\* ------------------------------------------------------------- WaitDialog
Texts   == {None, "", "Loading", "Saving"}
Threads == {"ui", "worker"}
Never   == "<never>"

NoWaitDialog == [exists |-> FALSE, visible |-> FALSE, destroyed |-> FALSE,
                 label |-> "", default_text |-> ""]
NoWaitHist   == [lastText |-> Never, textThread |-> None, lastVis |-> None,
                 callers |-> {}, destroyIssued |-> FALSE]

\* Python's `a or b` on strings: None and "" are falsy.
Or(a, b) == IF a \in {None, ""} THEN b ELSE a

\* Text of the "wait_dialog_label" object in the markup the builder was given.
WaitLabelText(content) == content[2].text

\* WaitDialog.__init__: the instance built from the markup get_dialog_from_xml read.
WaitDialog_init(content, text) ==
  [exists |-> TRUE, visible |-> FALSE, destroyed |-> FALSE,
   label |-> WaitLabelText(content),
   default_text |-> Or(text, WaitLabelText(content))]

WaitDialog_set_text_untranslated(w, text) ==
  [w EXCEPT !.label = Or(text, w.default_text)]

\* Bodies of the three decorated methods, as the idle callback runs them.
WaitDialog_set_text(w, text) ==
  [w EXCEPT !.label = get_message(Or(text, w.default_text))]

WaitDialog_hide(w) == [w EXCEPT !.visible = FALSE]

WaitDialog_destroy(w) == [w EXCEPT !.visible = FALSE, !.destroyed = TRUE]

\* self._dialog.show(): the outcomes of showing the window; showing a window
\* that was already destroyed is left to the toolkit.
Dialog_show(w) ==
  IF w.destroyed THEN {[w EXCEPT !.visible = v] : v \in BOOLEAN}
  ELSE {[w EXCEPT !.visible = TRUE]}

\* run_idle: the wrapper only queues the call on the main loop (GLib.idle_add).
run_idle(queue, op, text) == Append(queue, [op |-> op, text |-> text])

ApplyIdle(w, cb) ==
  CASE cb.op = "set_text" -> WaitDialog_set_text(w, cb.text)
    [] cb.op = "hide"     -> WaitDialog_hide(w)
    [] cb.op = "destroy"  -> WaitDialog_destroy(w)


\* ------------------------------------------------------------ show_dialog
DialogTypes == {"input", "chooser", "error", "question", "info", "about", "wait"}

\* Gtk.ButtonsType and Gtk.FileChooserAction members by their integer value.
ButtonsType(name) ==
  CASE name = "NONE" -> 0 [] name = "OK" -> 1 [] name = "YES_NO" -> 4 [] name = "OK_CANCEL" -> 5

FileChooserAction(name) ==
  CASE name = "OPEN" -> 0 [] name = "SAVE" -> 1 [] name = "SELECT_FOLDER" -> 2

ButtonsTypeNames == {"NONE", "OK", "YES_NO", "OK_CANCEL"}
ChooserActionNames == {"OPEN", "SAVE", "SELECT_FOLDER"}
ButtonsName(n) == CHOOSE name \in ButtonsTypeNames : ButtonsType(name) = n

\* Platform path separator (app.settings.SEP).
SEP(win) == IF win THEN "\\" ELSE "/"

\* The file system the chooser browses: paths are component sequences from the root.
Dirs  == { <<"data">>, <<"data", "profile">> }
Files == { <<"data", "lamedb">> }
Links == [p \in { <<"cfg">> } |-> <<"data">>]
ProfileDataPath == <<"data", "profile">>          \* settings.profile_data_path
Selectable == { <<"data">>, <<"data", "lamedb">>, <<"cfg">>, <<"cfg", "lamedb">>,
                <<"data", "new.xml">> }

RECURSIVE ResolveFrom(_, _)
ResolveFrom(done, rest) ==
  IF rest = << >> THEN done
  ELSE LET next == Append(done, Head(rest))
       IN ResolveFrom(IF next \in DOMAIN Links THEN Links[next] ELSE next, Tail(rest))

\* Path.resolve(): the absolute path with symbolic links followed.
resolve(path) == ResolveFrom(<< >>, path)
is_dir(path)  == resolve(path) \in Dirs
is_file(path) == resolve(path) \in Files

\* str(path): the components, each preceded by the separator.
RECURSIVE PathStr(_, _)
PathStr(path, sep) ==
  IF path = << >> THEN << >> ELSE <<sep, Head(path)>> \o PathStr(Tail(path), sep)

\* Values show_dialog can return: a str (a sequence of text pieces), a
\* Gtk.ResponseType member, or None.
StrResult(pieces)  == [type |-> "str", str |-> pieces, code |-> None]
CodeResult(name)   == [type |-> "response", str |-> << >>, code |-> name]
NoneResult         == [type |-> "None", str |-> << >>, code |-> None]
TextStr(text)      == IF text = "" THEN << >> ELSE <<text>>

NoCall == [pc |-> "none", dialog_type |-> None, text |-> None, settings |-> FALSE,
           action_type |-> None, buttons |-> None, response |-> None, result |-> NoneResult]
NoDialog == [name |-> None, alive |-> FALSE, buttons |-> None, markup |-> None,
             entry |-> "", action |-> None, create_folders |-> FALSE, filename |-> << >>]

Init ==
  /\ isWin \in BOOLEAN
  /\ fileVer = 1
  /\ cache = << >>
  /\ recency = << >>
  /\ lastCall = [seq |-> 0, args |-> << >>, content |-> << >>, read |-> FALSE, again |-> FALSE]
  /\ wd = NoWaitDialog
  /\ idleQueue = << >>
  /\ workerPc = None
  /\ waitHist = NoWaitHist
  /\ call = NoCall
  /\ dialog = NoDialog

\* ------------------------------------------------- resource-cache actions
\* A direct call get_dialogs_string(path), the tag left to its default.
GetDialogsString ==
  \E path \in Paths :
    /\ get_dialogs_string(<<path>>)
    /\ UNCHANGED <<isWin, fileVer>>

\* get_dialog_from_xml(dialog_type, transient): get_dialogs_string(UI_RESOURCES_PATH + "dialogs.glade").
GetDialogFromXml ==
  /\ get_dialogs_string(<<DialogsGlade>>)
  /\ UNCHANGED <<isWin, fileVer>>

\* get_builder(path, handlers, use_str, objects, tag): always passes (path, tag).
get_builder ==
  \E path \in Paths, tag \in Tags :
    /\ get_dialogs_string(<<path, tag>>)
    /\ UNCHANGED <<isWin, fileVer>>

\* The resource files are rewritten on disk (environment).
ModifyFile ==
  /\ fileVer < MaxVersion
  /\ fileVer' = fileVer + 1
  /\ UNCHANGED <<isWin, cache, recency, lastCall>>

NextCache ==
  \/ (GetDialogsString /\ UNCHANGED <<waitVars, dlgVars>>)
  \/ (GetDialogFromXml /\ UNCHANGED <<waitVars, dlgVars>>)
  \/ (get_builder /\ UNCHANGED <<waitVars, dlgVars>>)
  \/ (ModifyFile /\ UNCHANGED <<waitVars, dlgVars>>)

SpecCache == Init /\ [][NextCache]_vars

\* --------------------------------------------------- WaitDialog actions
NoteCaller(h, thread) == [h EXCEPT !.callers = @ \cup {thread}]

\* WaitDialog(transient, text)
NewWaitDialog ==
  \E text \in Texts :
    /\ ~wd.exists
    /\ get_dialogs_string(<<DialogsGlade>>)
    /\ wd' = WaitDialog_init(lru_result(cache, <<DialogsGlade>>, isWin, fileVer), text)
    /\ UNCHANGED <<isWin, fileVer, idleQueue, workerPc, waitHist>>

\* show(text) called on the UI thread: the whole method runs before the main
\* loop can dispatch an idle callback.
ShowUi ==
  \E text \in Texts, w \in Dialog_show(wd) :
    /\ wd.exists /\ Len(idleQueue) < MaxQueue
    /\ idleQueue' = run_idle(idleQueue, "set_text", text)
    /\ wd' = w
    /\ waitHist' = [NoteCaller(waitHist, "ui") EXCEPT !.lastText = text, !.textThread = "ui",
                                                     !.lastVis = "show"]
    /\ UNCHANGED <<resVars, workerPc>>

\* show(text) called on the worker thread, first statement: self.set_text(text).
ShowWorkerSetText ==
  \E text \in Texts :
    /\ wd.exists /\ workerPc = None /\ Len(idleQueue) < MaxQueue
    /\ idleQueue' = run_idle(idleQueue, "set_text", text)
    /\ workerPc' = "show"
    /\ waitHist' = [NoteCaller(waitHist, "worker") EXCEPT !.lastText = text, !.textThread = "worker",
                                                         !.lastVis = "show"]
    /\ UNCHANGED <<resVars, wd>>

\* show(text) called on the worker thread, second statement: self._dialog.show().
ShowWorkerDialogShow ==
  \E w \in Dialog_show(wd) :
    /\ workerPc = "show"
    /\ wd' = w
    /\ workerPc' = None
    /\ UNCHANGED <<resVars, idleQueue, waitHist>>

CanCall(thread) == wd.exists /\ Len(idleQueue) < MaxQueue /\ (thread = "worker" => workerPc = None)

SetText ==
  \E thread \in Threads, text \in Texts :
    /\ CanCall(thread)
    /\ idleQueue' = run_idle(idleQueue, "set_text", text)
    /\ waitHist' = [NoteCaller(waitHist, thread) EXCEPT !.lastText = text, !.textThread = thread]
    /\ UNCHANGED <<resVars, wd, workerPc>>

Hide ==
  \E thread \in Threads :
    /\ CanCall(thread)
    /\ idleQueue' = run_idle(idleQueue, "hide", None)
    /\ waitHist' = [NoteCaller(waitHist, thread) EXCEPT !.lastVis = "hide"]
    /\ UNCHANGED <<resVars, wd, workerPc>>

Destroy ==
  \E thread \in Threads :
    /\ CanCall(thread)
    /\ idleQueue' = run_idle(idleQueue, "destroy", None)
    /\ waitHist' = [NoteCaller(waitHist, thread) EXCEPT !.destroyIssued = TRUE]
    /\ UNCHANGED <<resVars, wd, workerPc>>

\* The UI thread's main loop dispatches the oldest pending idle callback.
IdleRun ==
  /\ idleQueue # << >>
  /\ wd' = ApplyIdle(wd, Head(idleQueue))
  /\ idleQueue' = Tail(idleQueue)
  /\ UNCHANGED <<resVars, workerPc, waitHist>>

NextWait ==
  \/ (NewWaitDialog /\ UNCHANGED dlgVars)
  \/ (ShowUi /\ UNCHANGED dlgVars)
  \/ (ShowWorkerSetText /\ UNCHANGED dlgVars)
  \/ (ShowWorkerDialogShow /\ UNCHANGED dlgVars)
  \/ (SetText /\ UNCHANGED dlgVars)
  \/ (Hide /\ UNCHANGED dlgVars)
  \/ (Destroy /\ UNCHANGED dlgVars)
  \/ (IdleRun /\ UNCHANGED dlgVars)

SpecWait == Init /\ [][NextWait]_vars

\* ------------------------------------------------------- modal dialog steps
\* Response codes dialog.run() can deliver, by the buttons the dialog offers.
Responses(d) ==
  CASE d.name = "message_dialog" ->
         (CASE d.buttons = "OK"        -> {"OK"}
            [] d.buttons = "OK_CANCEL" -> {"OK", "CANCEL"}
            [] d.buttons = "YES_NO"    -> {"YES", "NO"}
            [] d.buttons = "NONE"      -> {}) \cup {"DELETE_EVENT"}
    [] d.name = "input_dialog"   -> {"OK", "CANCEL", "DELETE_EVENT"}
    [] d.name = "about_dialog"   -> {"CANCEL", "DELETE_EVENT"}
    [] d.name = "file_chooser"   -> {"ACCEPT", "CANCEL", "DELETE_EVENT"}

\* get_message_dialog up to dialog.run(): the dialog that is built.
get_message_dialog(message_type, buttons_type, text) ==
  [NoDialog EXCEPT !.name = "message_dialog", !.alive = TRUE,
                   !.buttons = ButtonsName(ButtonsType(buttons_type)),
                   !.markup = get_message(text)]

\* get_dialog_from_xml: the object named dialog_type.value + "_dialog".
get_dialog_from_xml(dialog_type) ==
  [NoDialog EXCEPT !.name = dialog_type \o "_dialog", !.alive = TRUE]

\* get_input_dialog up to dialog.run().
get_input_dialog_built(text) ==
  [get_dialog_from_xml("input") EXCEPT !.entry = IF text \notin {None, ""} THEN text ELSE ""]

\* get_file_chooser_dialog up to dialog.run().
get_file_chooser_dialog_built(action_type, dirs) ==
  [NoDialog EXCEPT !.name = "file_chooser", !.alive = TRUE,
                   !.action = IF action_type = None THEN "SELECT_FOLDER" ELSE action_type,
                   !.create_folders = dirs,
                   !.filename = ProfileDataPath]

\* The buttons show_dialog asks for in a QUESTION dialog:
\* `action_type if action_type else OK_CANCEL`: None is falsy, and so is the
\* member whose integer value is 0.
question_buttons(action_type) ==
  IF action_type # None /\ ButtonsType(action_type) # 0 THEN action_type ELSE "OK_CANCEL"

\* Return value of get_file_chooser_dialog after run() gave `response` with
\* `path` = Path(dialog.get_filename() or dialog.get_current_folder()).
get_file_chooser_dialog_result(response, path, win) ==
  IF response = "ACCEPT"
  THEN IF is_dir(path) THEN StrResult(PathStr(resolve(path), SEP(win)) \o <<SEP(win)>>)
       ELSE IF is_file(path) THEN StrResult(PathStr(resolve(path), SEP(win)))
       ELSE CodeResult(response)
  ELSE CodeResult(response)

get_input_dialog_result_truthy(response, txt) ==
  IF response = "OK" /\ txt # "" THEN StrResult(TextStr(txt)) ELSE CodeResult("CANCEL")

\* Return value of get_input_dialog.
get_input_dialog_result(response, txt) ==
  IF response = "OK" THEN StrResult(TextStr(txt)) ELSE CodeResult("CANCEL")

get_message_dialog_result_okcancel(response) ==
  CodeResult(IF response = "OK" THEN "OK" ELSE "CANCEL")

\* Return value of get_message_dialog and get_about_dialog.
get_message_dialog_result(response) == CodeResult(response)

destroy_after_run_accept_only(d, response) ==
  IF response \in {"OK", "ACCEPT"} THEN [d EXCEPT !.alive = FALSE] ELSE d

\* dialog.destroy() as each of the four functions calls it before returning.
destroy_after_run(d, response) == [d EXCEPT !.alive = FALSE]

MessageTexts == {None, "", "Cancel", "Saving"}

NewCall(dialog_type, text, settings, action_type, buttons) ==
  [NoCall EXCEPT !.pc = "running", !.dialog_type = dialog_type, !.text = text,
                 !.settings = settings, !.action_type = action_type, !.buttons = buttons]

\* show_dialog(INFO | ERROR, transient, text), up to the modal run.  The text
\* is passed on as it is, None (the default) and "" included.
ShowInfoError ==
  \E dialog_type \in {"info", "error"}, text \in MessageTexts :
    /\ call.pc # "running"
    /\ dialog' = get_message_dialog(dialog_type, "OK", text)
    /\ call' = NewCall(dialog_type, text, FALSE, None, None)
    /\ UNCHANGED resVars

\* show_dialog(QUESTION, transient, text, action_type=, buttons=), up to the modal run.
ShowQuestion ==
  \E text \in MessageTexts, action_type \in {None} \cup ButtonsTypeNames, buttons \in {None, "YES_NO"} :
    /\ call.pc # "running"
    /\ dialog' = get_message_dialog("question", question_buttons(action_type),
                                    Or(text, "Are you sure?"))
    /\ call' = NewCall("question", text, FALSE, action_type, buttons)
    /\ UNCHANGED resVars

\* show_dialog(CHOOSER, transient, settings=settings, action_type=, create_dir=),
\* up to the modal run.
ShowChooser ==
  \E action_type \in {None} \cup ChooserActionNames, create_dir \in BOOLEAN :
    /\ call.pc # "running"
    /\ dialog' = get_file_chooser_dialog_built(action_type, create_dir)
    /\ call' = NewCall("chooser", None, TRUE, action_type, None)
    /\ UNCHANGED resVars

\* show_dialog(INPUT | ABOUT, transient, text), up to the modal run; both build
\* the dialog from the cached markup.
ShowFromXml ==
  \E dialog_type \in {"input", "about"}, text \in MessageTexts :
    /\ call.pc # "running"
    /\ dialog_type = "about" => text = None
    /\ get_dialogs_string(<<DialogsGlade>>)
    /\ dialog' = IF dialog_type = "input" THEN get_input_dialog_built(text)
                 ELSE get_dialog_from_xml("about")
    /\ call' = NewCall(dialog_type, text, FALSE, None, None)
    /\ UNCHANGED <<isWin, fileVer>>

\* show_dialog(...) when no branch of the dispatch matches: WAIT, or CHOOSER
\* without settings.  The function falls off its end.
ShowNoBranch ==
  \E dialog_type \in {"wait", "chooser"}, text \in {None, "Saving"} :
    /\ call.pc # "running"
    /\ call' = [NewCall(dialog_type, text, FALSE, None, None) EXCEPT !.pc = "returned", !.result = NoneResult]
    /\ UNCHANGED <<resVars, dialog>>

\* While the dialog runs the user edits the entry / changes the selection.
UserEdit ==
  /\ call.pc = "running"
  /\ \/ /\ dialog.name = "input_dialog"
        /\ \E txt \in {"", "Cancel", "bouquet"} : dialog' = [dialog EXCEPT !.entry = txt]
     \/ /\ dialog.name = "file_chooser"
        /\ \E f \in Selectable : dialog' = [dialog EXCEPT !.filename = f]
  /\ UNCHANGED <<resVars, call>>

\* The user dismisses the dialog: run() returns, the function computes its
\* result, destroys the dialog and returns.
Respond ==
  /\ call.pc = "running"
  /\ \E response \in Responses(dialog) :
    /\ call' = [call EXCEPT
         !.pc = "returned",
         !.response = response,
         !.result = CASE dialog.name = "file_chooser" ->
                           get_file_chooser_dialog_result(response, dialog.filename, isWin)
                      [] dialog.name = "input_dialog" ->
                           get_input_dialog_result(response, dialog.entry)
                      [] OTHER -> get_message_dialog_result(response)]
    /\ dialog' = destroy_after_run(dialog, response)
    /\ UNCHANGED resVars

NextDialog ==
  \/ (ShowInfoError /\ UNCHANGED waitVars)
  \/ (ShowQuestion /\ UNCHANGED waitVars)
  \/ (ShowChooser /\ UNCHANGED waitVars)
  \/ (ShowFromXml /\ UNCHANGED waitVars)
  \/ (ShowNoBranch /\ UNCHANGED waitVars)
  \/ (UserEdit /\ UNCHANGED waitVars)
  \/ (Respond /\ UNCHANGED waitVars)

SpecDialog == Init /\ [][NextDialog]_vars

\* ================================================================ claims
\* A step in which the UI thread's main loop ran the oldest idle callback.
IdleStep == idleQueue # << >> /\ idleQueue' = Tail(idleQueue)

\* A step in which get_dialogs_string was called.
CallStep == lastCall'.seq # lastCall.seq

\* The n most recently requested keys.
MostRecent(s, n) == {s[i] : i \in {j \in DOMAIN s : j > Len(s) - n}}

\* C1: every mutating WaitDialog operation (show, set_text, hide, destroy) is
\* deferred: the dialog's visibility, label text and destroyed status change
\* only in a step where the UI thread runs a queued idle callback, never in
\* the step of the call itself.
C1_AllMutatorsDeferred ==
  [][ (wd.exists /\ ( wd'.visible # wd.visible \/ wd'.label # wd.label
                      \/ wd'.destroyed # wd.destroyed )) => IdleStep ]_vars

\* C2 as stated: two successive get_dialogs_string calls with the same path
\* return identical content and read the file at most once between them.
C2_SamePathOneRead ==
  [][ (CallStep /\ lastCall.args # << >> /\ lastCall'.args[1] = lastCall.args[1])
        => (lastCall'.content = lastCall.content /\ ~(lastCall.read /\ lastCall'.read)) ]_vars

\* C2 amended: two successive get_dialogs_string calls with the same argument
\* tuple (same path, same tag, tag passed or omitted alike) return identical
\* content, and the second performs no file read.
C2_SameArgsOneRead ==
  [][ (CallStep /\ lastCall'.args = lastCall.args)
        => (lastCall'.content = lastCall.content /\ ~lastCall'.read) ]_vars

\* C2 witness: a repeated request was served from the cache after the file
\* had changed on disk (the stale content was returned without a read).
C2_Witness ==
  /\ lastCall.again /\ ~lastCall.read
  /\ lastCall.content # get_dialogs_string_body(lastCall.args, isWin, fileVer)

\* C3: for the chooser, ACCEPT on a directory returns the resolved path ending
\* in SEP, ACCEPT on a file returns the resolved path without trailing SEP, an
\* accepted selection always returns a path string, and every other response
\* returns Gtk.ResponseType.CANCEL.
C3_ChooserResult ==
  (call.pc = "returned" /\ call.dialog_type = "chooser" /\ call.settings) =>
    IF call.response = "ACCEPT"
    THEN /\ call.result.type = "str"
         /\ is_dir(dialog.filename) =>
              call.result.str = PathStr(resolve(dialog.filename), SEP(isWin)) \o <<SEP(isWin)>>
         /\ (is_file(dialog.filename) /\ ~is_dir(dialog.filename)) =>
              /\ call.result.str = PathStr(resolve(dialog.filename), SEP(isWin))
              /\ call.result.str[Len(call.result.str)] # SEP(isWin)
    ELSE call.result = CodeResult("CANCEL")

\* C4: the input dialog returns exactly the entry's text (the empty string
\* included) when the response is OK, and Gtk.ResponseType.CANCEL for every
\* other response whatever the entry holds.
C4_InputResult ==
  (call.pc = "returned" /\ call.dialog_type = "input") =>
    IF call.response = "OK"
    THEN call.result = StrResult(TextStr(dialog.entry))
    ELSE call.result = CodeResult("CANCEL")

\* C4 witness: OK pressed on an entry the user emptied after it was pre-filled.
C4_Witness ==
  /\ call.pc = "returned" /\ call.dialog_type = "input" /\ call.response = "OK"
  /\ call.text = "Cancel" /\ dialog.entry = "" /\ call.result = StrResult(<< >>)

\* C5: show_dialog with DialogType.WAIT returns a WaitDialog handle, never an
\* absent result.
C5_WaitReturnsHandle ==
  (call.pc = "returned" /\ call.dialog_type = "wait") => call.result.type = "handle"

\* C6: set_text is never applied in the calling step: the label changes only
\* when the UI thread runs a queued set_text callback, and once the idle queue
\* is drained the label shows the translation of the last text passed (of the
\* default text when that argument was empty).
C6_SetTextDeferred ==
  /\ [][ (wd.exists /\ wd'.label # wd.label)
           => (IdleStep /\ Head(idleQueue).op = "set_text") ]_vars
  /\ []( (wd.exists /\ idleQueue = << >> /\ waitHist.lastText # Never)
           => wd.label = get_message(Or(waitHist.lastText, wd.default_text)) )

\* C6 witness: a text set from the worker thread is shown, translated, after
\* the queue was drained.
C6_Witness ==
  /\ wd.exists /\ idleQueue = << >>
  /\ waitHist.textThread = "worker" /\ waitHist.lastText = "Loading" /\ wd.label = "Laden"

\* C7: for INFO, ERROR, QUESTION and ABOUT show_dialog returns the response
\* code the modal run delivered; INFO and ERROR offer only OK; QUESTION offers
\* OK/Cancel when the caller gave no button set and the caller's set otherwise.
C7_MessageResult ==
  /\ (call.pc = "returned" /\ call.dialog_type \in {"info", "error", "question", "about"})
       => call.result = CodeResult(call.response)
  /\ (call.pc # "none" /\ call.dialog_type \in {"info", "error"})
       => (dialog.buttons = "OK" /\ Responses(dialog) = {"OK", "DELETE_EVENT"})
  /\ (call.pc # "none" /\ call.dialog_type = "question" /\ call.action_type = None)
       => dialog.buttons = "OK_CANCEL"
  /\ (call.pc # "none" /\ call.dialog_type = "question"
        /\ call.action_type \in {"OK", "YES_NO", "OK_CANCEL"})
       => dialog.buttons = call.action_type

\* C7 witness: a QUESTION with caller-supplied Yes/No buttons answered No.
C7_Witness ==
  /\ call.pc = "returned" /\ call.dialog_type = "question" /\ call.action_type = "YES_NO"
  /\ call.response = "NO" /\ call.result = CodeResult("NO")

\* C8: every modal dialog is constructed, run and destroyed: the instance is
\* alive while show_dialog runs it and destroyed once show_dialog has
\* returned, whatever the response.
C8_DestroyedOnReturn ==
  /\ call.pc = "running" => dialog.alive
  /\ call.pc = "returned" => ~dialog.alive

\* C8 witness: a chooser that was cancelled has been destroyed.
C8_Witness ==
  /\ call.pc = "returned" /\ call.dialog_type = "chooser" /\ call.response = "CANCEL"
  /\ dialog.name = "file_chooser" /\ ~dialog.alive

\* C9: the cache never holds more than 5 entries, it holds exactly the most
\* recently requested keys (so the entry evicted is the least recently used),
\* and a call for a key that was evicted reads the file again.
C9_LruBound ==
  /\ []( /\ Len(cache) <= LruMaxSize
         /\ Cardinality(CacheKeys(cache)) = Len(cache)
         /\ CacheKeys(cache) = MostRecent(recency, LruMaxSize) )
  /\ [][ (CallStep /\ lastCall'.args \in SeqSet(recency)
            /\ lastCall'.args \notin MostRecent(recency, LruMaxSize))
           => lastCall'.read ]_vars

\* C9 witness: with the cache full, a key that had been evicted was read again.
C9_Witness ==
  /\ Len(cache) = LruMaxSize /\ Len(recency) > LruMaxSize
  /\ lastCall.again /\ lastCall.read

\* C10: once the idle queue is drained, a WaitDialog that is not destroyed and
\* was driven by one thread is visible exactly when the last call was show.
C10_LastCallWins ==
  ( /\ wd.exists /\ idleQueue = << >> /\ workerPc = None
    /\ ~wd.destroyed /\ ~waitHist.destroyIssued
    /\ waitHist.lastVis # None /\ Cardinality(waitHist.callers) <= 1 )
  => (wd.visible <=> waitHist.lastVis = "show")
====
